---- MODULE Spec2Model ----
(***************************************************************************)
(* TW50: two batch scripts that fetch daily bars per stock symbol, derive  *)
(* indicators, rank a watchlist and replace worksheets of a spreadsheet.   *)
(*   src/src/main.py  "TW50 TOP5 (winrate-pro)"   -> prog = "pro"          *)
(*   src/main.py      "King report v1.0"          -> prog = "king"         *)
(* A run is one invocation of one script's main().                         *)
(***************************************************************************)
EXTENDS Integers, Sequences, FiniteSets, TLC

(***************************************************************************)
(* Bounds of the model.                                                    *)
(***************************************************************************)
\* longest ticker list of a run under Spec (drawn among the first symbols
\* of ConfigSymbols, in every order)
MaxTickers == 3
\* longest ticker list of a run under SpecRank
RankTickers == 7
\* data rows a worksheet may hold before the run starts
OldRows == 4
\* longest close series handed to add_indicators under SpecRsi
MaxBars == 15

(***************************************************************************)
(* Cell values.  pandas floats are modelled as integers; NaN, +-inf and    *)
(* None (an empty cell after sanitize_df) are kept apart.                  *)
(***************************************************************************)
Frac(n, d) == [k |-> "num", v |-> n, d |-> d]
Num(n) == Frac(n, 1)
NaN == [k |-> "nan", v |-> 0, d |-> 1]
Inf == [k |-> "inf", v |-> 0, d |-> 1]
None == [k |-> "none", v |-> 0, d |-> 1]
IsNum(x) == x.k = "num"

\* pandas comparisons: any comparison with NaN is False.  A number is the
\* fraction v/d with d > 0, compared by cross-multiplication.
Gt(a, b) == IsNum(a) /\ IsNum(b) /\ a.v * b.d > b.v * a.d
Lt(a, b) == IsNum(a) /\ IsNum(b) /\ a.v * b.d < b.v * a.d
Ge(a, b) == IsNum(a) /\ IsNum(b) /\ a.v * b.d >= b.v * a.d
Le(a, b) == IsNum(a) /\ IsNum(b) /\ a.v * b.d <= b.v * a.d
Eq(a, b) == IsNum(a) /\ IsNum(b) /\ a.v * b.d = b.v * a.d

\* a - b
Sub(a, b) ==
    IF IsNum(a) /\ IsNum(b) THEN Frac(a.v * b.d - b.v * a.d, a.d * b.d)
    ELSE NaN

\* a / b for b # 0 (the code replaces a zero divisor by NaN before dividing)
Div(a, b) ==
    IF IsNum(a) /\ IsNum(b) /\ b.v # 0
    THEN IF b.v > 0 THEN Frac(a.v * b.d, a.d * b.v)
         ELSE Frac(-(a.v * b.d), -(a.d * b.v))
    ELSE NaN

\* a + b
Add(a, b) ==
    IF IsNum(a) /\ IsNum(b) THEN Frac(a.v * b.d + b.v * a.d, a.d * b.d)
    ELSE NaN

\* Series.replace(0, np.nan)
replace_zero(a) == IF IsNum(a) /\ a.v = 0 THEN NaN ELSE a

Min(a, b) == IF a <= b THEN a ELSE b
Max(a, b) == IF a >= b THEN a ELSE b

(***************************************************************************)
(* RSI14 of add_indicators, lines 108-113, over a column of closes.        *)
(***************************************************************************)
RsiLen == 14

\* Series.diff(): no value at the first position
diff(c) == [i \in 1..Len(c) |-> IF i = 1 THEN NaN ELSE Num(c[i] - c[i - 1])]

\* delta.clip(lower=0) and -delta.clip(upper=0); NaN stays NaN
clip_lower0(x) == IF IsNum(x) THEN Frac(Max(x.v, 0), x.d) ELSE x
neg_clip_upper0(x) == IF IsNum(x) THEN Frac(-Min(x.v, 0), x.d) ELSE x

RECURSIVE SumOver(_, _, _)
SumOver(col, from, to) ==
    IF from > to THEN Num(0) ELSE Add(col[from], SumOver(col, from + 1, to))

\* Series.rolling(w, min_periods=w).mean(): NaN until the window holds w
\* values
rolling_mean(col, w) ==
    [i \in 1..Len(col) |->
        IF i >= w /\ \A j \in (i - w + 1)..i : IsNum(col[j])
        THEN Div(SumOver(col, i - w + 1, i), Num(w))
        ELSE NaN]

gain_of(c) ==
    rolling_mean([i \in 1..Len(c) |-> clip_lower0(diff(c)[i])], RsiLen)
loss_of(c) ==
    rolling_mean([i \in 1..Len(c) |-> neg_clip_upper0(diff(c)[i])], RsiLen)

\* rs = gain / loss.replace(0, np.nan); RSI14 = 100 - (100 / (1 + rs))
RSI14_of(c) ==
    [i \in 1..Len(c) |->
        LET rs == Div(gain_of(c)[i], replace_zero(loss_of(c)[i]))
        IN  Sub(Num(100), Div(Num(100), Add(Num(1), rs)))]

(***************************************************************************)
(* Symbols.  A ticker "2330.TW" is modelled by its stock number 2330; for  *)
(* the four-digit numbers used here  t.startswith("28")  is t \div 100 = 28*)
(***************************************************************************)
TICKER_NAME_MAP ==
    { 2330, 2317, 2454, 2303, 2308, 2382, 2379, 2395, 2412, 1216,
      1301, 1326, 1402, 1101, 1102, 2002, 3008, 3711, 2603, 2609,
      2615, 3481, 3006, 2408,
      2880, 2881, 2882, 2883, 2884, 2885, 2886, 2887, 2888, 2889,
      2890, 2891, 2892, 2897, 2898, 5871, 5876 }

FIN_TICKERS == {t \in TICKER_NAME_MAP : t \div 100 = 28} \cup {5871, 5876}

\* main, line 268: is_fin
is_fin(t) == t \in FIN_TICKERS \/ t \div 100 = 28

\* the symbols a config.json of the model may list, in a fixed order:
\* two non-financial ones, a financial one, then non-financial ones
ConfigSymbols == <<2330, 2317, 2881, 2454, 2303, 2308, 2382, 2379, 2395>>

Pos(t) == CHOOSE p \in 1..Len(ConfigSymbols) : ConfigSymbols[p] = t

\* all orderings of the set S as sequences without repetition
RECURSIVE Orderings(_)
Orderings(S) ==
    IF S = {} THEN {<<>>}
    ELSE UNION { {<<x>> \o s : s \in Orderings(S \ {x})} : x \in S }

(***************************************************************************)
(* The latest indicator row of a symbol: df.tail(1) of add_indicators(hist)*)
(* with the symbol inserted.  The fetched history is outside the program;  *)
(* its latest row is drawn from a bounded set.                             *)
(***************************************************************************)
Row(t, close, volume, vol20, rsi, sma50, sma200, lower, upper) ==
    [ sym |-> t, Close |-> close, Volume |-> volume, Vol20 |-> vol20,
      RSI14 |-> rsi, SMA50 |-> sma50, SMA200 |-> sma200,
      BB_Lower |-> lower, BB_Upper |-> upper ]

RSIValues == {NaN, Num(30), Num(70)}

\* The volume of each of the first two symbols is drawn from two values, one
\* of them shared, so that the two can tie; every other symbol has one volume.
VolumesOf(t) ==
    IF Pos(t) <= 2 THEN {Num(Pos(t)), Num(Pos(t) + 1)} ELSE {Num(Pos(t))}

\* the first symbols draw their RSI from all of RSIValues; a financial
\* symbol has one latest row, the later symbols two
RSIOf(t) ==
    IF is_fin(t) THEN {Num(70)}
    ELSE IF Pos(t) <= 4 THEN RSIValues ELSE {NaN, Num(70)}

LatestRows(t) ==
    { Row(t, Num(20), vol, Num(2), rsi, Num(15), Num(10), Num(15), Num(35)) :
      rsi \in RSIOf(t), vol \in VolumesOf(t) }

(***************************************************************************)
(* Ranking: main, lines 265-286.                                           *)
(***************************************************************************)
\* one descending sort key with na_position="last": a sorts strictly
\* before b
KeyBefore(a, b) == (IsNum(a) /\ ~IsNum(b)) \/ Gt(a, b)
KeyTie(a, b) == (~IsNum(a) /\ ~IsNum(b)) \/ Eq(a, b)

\* the first key sorted ascending instead (ascending=[True, False])
BeforeAscending(r, s) ==
    \/ (IsNum(r.RSI14) /\ ~IsNum(s.RSI14)) \/ Lt(r.RSI14, s.RSI14)
    \/ KeyTie(r.RSI14, s.RSI14) /\ KeyBefore(r.Volume, s.Volume)

\* sort_values(["RSI14","Volume"], ascending=[False, False]): r sorts
\* strictly before s
Before(r, s) ==
    \/ KeyBefore(r.RSI14, s.RSI14)
    \/ KeyTie(r.RSI14, s.RSI14) /\ KeyBefore(r.Volume, s.Volume)

\* the place of df[i] after a stable sort: rows that sort before it, and
\* rows tied with it that stood before it, come first
Place(df, i) ==
    1 + Cardinality({ j \in 1..Len(df) :
                        \/ Before(df[j], df[i])
                        \/ ~Before(df[i], df[j]) /\ j < i })

\* DataFrame.sort_values on several keys (lexsort: stable)
sort_rsi_volume(df) ==
    [p \in 1..Len(df) |-> df[CHOOSE i \in 1..Len(df) : Place(df, i) = p]]

\* DataFrame.sort_values("Volume", ascending=False), kind="quicksort": not
\* stable, so rows of equal volume come out in any order.  The set of the
\* orders the sort may produce for the rows at the indices S.
RECURSIVE VolumeOrders(_, _)
VolumeOrders(df, S) ==
    IF S = {} THEN {<<>>}
    ELSE UNION { {<<df[m]>> \o rest : rest \in VolumeOrders(df, S \ {m})} :
                 m \in { m \in S : \A j \in S :
                                     ~KeyBefore(df[j].Volume, df[m].Volume) } }

\* DataFrame.head(n)
head(df, n) == SubSeq(df, 1, Min(n, Len(df)))

\* boolean-mask selection df[mask], keeping the order of the rows
RECURSIVE Select(_, _)
Select(df, fin) ==
    IF df = <<>> THEN <<>>
    ELSE IF is_fin(df[1].sym) = fin
         THEN <<df[1]>> \o Select(Tail(df), fin)
         ELSE Select(Tail(df), fin)

Top10N == 10
Hot20N == 20
Top5N == 5

top10_of(df_nonfin) == head(sort_rsi_volume(df_nonfin), Top10N)
hot20_of(df_nonfin) ==
    { head(o, Hot20N) : o \in VolumeOrders(df_nonfin, 1..Len(df_nonfin)) }
\* Top5 cut like Top10
top5_head10(hot20) == head(sort_rsi_volume(hot20), Top10N)
top5_of(hot20) == head(sort_rsi_volume(hot20), Top5N)

(***************************************************************************)
(* Signal of a Top5 row: main, lines 288-315.                              *)
(***************************************************************************)
BB_percent(r) ==
    Div(Sub(r.Close, r.BB_Lower), replace_zero(Sub(r.BB_Upper, r.BB_Lower)))
Bull(r) == Gt(r.Close, r.SMA50) /\ Gt(r.SMA50, r.SMA200)
Bear(r) == Lt(r.Close, r.SMA50) /\ Lt(r.SMA50, r.SMA200)
VolOK(r) == Ge(r.Volume, r.Vol20)

\* signal_pro without the volume filter
signal_any_volume(r) ==
    IF Bull(r)
       /\ (Le(BB_percent(r), Frac(12, 100)) \/ Le(r.RSI14, Num(38)))
    THEN "Buy"
    ELSE IF Bear(r)
            /\ (Ge(BB_percent(r), Frac(88, 100)) \/ Ge(r.RSI14, Num(62)))
         THEN "Sell"
         ELSE "Hold"

\* the labels are "買進" (Buy), "賣出" (Sell), "觀望" (Hold)
signal_pro(r) ==
    IF VolOK(r) /\ Bull(r)
       /\ (Le(BB_percent(r), Frac(12, 100)) \/ Le(r.RSI14, Num(38)))
    THEN "Buy"
    ELSE IF VolOK(r) /\ Bear(r)
            /\ (Ge(BB_percent(r), Frac(88, 100)) \/ Ge(r.RSI14, Num(62)))
         THEN "Sell"
         ELSE "Hold"

\* a row of top5_out: the columns the signal is derived from and the signal
\* (the suggested entry and exit columns repeat BB_Lower, BB_Mid, BB_Upper)
Top5Row(r) ==
    [ sym |-> r.sym, Close |-> r.Close, RSI14 |-> r.RSI14,
      BB_percent |-> BB_percent(r), Bull |-> Bull(r), Bear |-> Bear(r),
      VolOK |-> VolOK(r), Signal |-> signal_pro(r) ]

top5_out_of(top5) == [p \in 1..Len(top5) |-> Top5Row(top5[p])]

(***************************************************************************)
(* Worksheets.  A worksheet is a grid of rows; a row is the marker cell,   *)
(* a header, a data row, a text cell or blank.                             *)
(***************************************************************************)
Blank == [kind |-> "blank"]
Stamp(text) == [kind |-> "stamp", text |-> text]
Text(text) == [kind |-> "text", text |-> text]
Header(cols) == [kind |-> "header", cols |-> cols]
Data(row) == [kind |-> "data", row |-> row]

\* taipei_now_str() of this run, and the marker a previous run left
NewStamp == "this run"
OldStamp == "previous run"

\* writing the rows cells from grid row r on; every other row is kept
PutRows(grid, r, cells) ==
    [p \in 1..Max(Len(grid), r + Len(cells) - 1) |->
        IF p >= r /\ p < r + Len(cells) THEN cells[p - r + 1]
        ELSE IF p <= Len(grid) THEN grid[p] ELSE Blank]

\* a clear() that leaves the grid as it is
ws_clear_kept(grid) == grid

\* Worksheet.clear()
ws_clear(grid) == <<>>

\* the columns of the model that hold floats
FloatCols ==
    {"Close", "Volume", "Vol20", "RSI14", "SMA50", "SMA200", "BB_Lower",
     "BB_Upper", "BB_percent"}

\* sanitize_df: +-inf -> NaN, then NaN -> None
sanitize_cell(x) ==
    LET y == IF x.k = "inf" THEN NaN ELSE x
    IN  IF y.k = "nan" THEN None ELSE y

sanitize_df(df) ==
    [p \in 1..Len(df) |->
        [c \in DOMAIN df[p] |->
            IF c \in FloatCols THEN sanitize_cell(df[p][c]) ELSE df[p][c]]]

\* gspread_dataframe.set_with_dataframe(ws, clean, row=2,
\* include_index=False, include_column_header=True): the header and the
\* rows are written from grid row 2 on; the worksheet is not resized
set_with_dataframe(grid, clean, r) ==
    PutRows(grid, r,
            <<Header(DOMAIN clean[1])>> \o
            [p \in 1..Len(clean) |-> Data(clean[p])])

\* upsert_df, lines 93-97, on a grid already cleared and stamped
upsert_body(grid, df) ==
    IF df = <<>> THEN PutRows(grid, 3, <<Text("No Data")>>)
    ELSE set_with_dataframe(grid, sanitize_df(df), 2)

\* upsert_df as a whole, when no call fails
upsert_df(grid, df, stamp_text) ==
    upsert_body(PutRows(ws_clear(grid), 1, <<Stamp(stamp_text)>>), df)

\* update_roadmap, lines 200-226: the title line with the stamp, then the
\* fixed text
roadmap_rows(stamp) == <<Stamp(stamp), Text("roadmap")>>

\* the destinations of main, in the order lines 347-354 write them
Titles ==
    <<"TW50_fin", "TW50_nonfin", "Top10_nonfin", "Hot20_nonfin",
      "Top5_hot20", "Roadmap">>
RoadmapAt == Len(Titles)
KingTitle == "King_Report_TW_v1"

SheetsOf(p) ==
    IF p = "pro" THEN {Titles[d] : d \in 1..Len(Titles)} ELSE {KingTitle}

\* what a previous run left in a worksheet: its marker, a header and n rows
\* of symbols this run does not list
OldGrid(n) ==
    <<Stamp(OldStamp), Header({"sym"})>> \o
    [p \in 1..n |-> Data([sym |-> 1100 + p])]

\* a worksheet before the run: missing, or left by a previous run
PriorSheet(pr) ==
    IF pr = "absent" THEN [exists |-> FALSE, grid |-> <<>>]
    ELSE [exists |-> TRUE, grid |-> OldGrid(OldRows)]

(***************************************************************************)
(* State of a run.                                                         *)
(***************************************************************************)
VARIABLES
    prog,        \* which script runs: "pro" or "king"
    pc,          \* where main() stands
    tickers,     \* the symbol list of the run
    idx,         \* the loop's position in tickers
    rows,        \* pro: the latest rows accumulated (df_all after concat)
    failed,      \* pro: the symbols skipped
    lastFetch,   \* what the sources answered for the symbol fetched last
    got,         \* the symbols whose fetch returned a history so far
    rejected,    \* king: the symbols whose history analyze_stock refused
    tables,      \* pro: the tables derived at lines 265-344
    wd,          \* pro: the destination being written (index into Titles)
    wstep,       \* the sink call that comes next, or the one that raised
    sheets,      \* the spreadsheet: title -> [exists, grid]
    prior,       \* what the worksheets held when the run started
    err,         \* why the run failed, "" while it has not
    attempts,    \* how often the last sink or configuration call was made
    all_results, \* king: the rows accumulated
    tries,       \* king: attempts of fetch_stock_data_with_retry so far
    sigRow,      \* SpecSignal: the Top5 row handed to signal_pro
    sigLabel,    \* SpecSignal: its label
    closes,      \* SpecRsi: the close series handed to add_indicators
    rsiCol       \* SpecRsi: the RSI14 column computed

runVars ==
    <<prog, pc, tickers, idx, rows, failed, lastFetch, got, rejected, tables,
      wd, wstep, sheets, prior, err, attempts, all_results, tries>>
sigVars == <<sigRow, sigLabel>>
rsiVars == <<closes, rsiCol>>
vars == <<runVars, sigVars, rsiVars>>

NoTables ==
    [ df_fin_all |-> <<>>, df_nonfin_all |-> <<>>, top10 |-> <<>>,
      hot20 |-> <<>>, top5 |-> <<>>, top5_out |-> <<>> ]
NoFetch == [t |-> 0, yf |-> "", twse |-> "", bars |-> 0]

\* the table main hands to upsert_df for destination d (lines 347-351)
DestTable(d) ==
    CASE d = 1 -> tables.df_fin_all
      [] d = 2 -> tables.df_nonfin_all
      [] d = 3 -> tables.top10
      [] d = 4 -> tables.hot20
      [] d = 5 -> tables.top5_out

SymbolsOf(df) == {df[p].sym : p \in 1..Len(df)}
Range(seq) == {seq[p] : p \in 1..Len(seq)}

\* the variables the other specifications use, at rest
SigIdle == sigRow = [sym |-> 0] /\ sigLabel = ""
RsiIdle == closes = <<>> /\ rsiCol = <<>>

InitRun(p, list, pr) ==
    /\ prog = p
    /\ pc = IF p = "pro" THEN "get_sheet" ELSE "read_list"
    /\ tickers = list
    /\ idx = 1
    /\ rows = <<>>
    /\ failed = <<>>
    /\ lastFetch = NoFetch
    /\ got = {}
    /\ rejected = {}
    /\ tables = NoTables
    /\ wd = 1
    /\ wstep = ""
    /\ sheets = [title \in SheetsOf(p) |-> PriorSheet(pr)]
    /\ prior = pr
    /\ err = ""
    /\ attempts = 0
    /\ all_results = <<>>
    /\ tries = 0

\* the ticker lists of Spec: the first n config symbols, in every order
Prefixes ==
    UNION { Orderings({ConfigSymbols[p] : p \in 1..n}) : n \in 1..MaxTickers }

Init ==
    /\ \E p \in {"pro", "king"}, list \in Prefixes,
          pr \in {"absent", "present"} : InitRun(p, list, pr)
    /\ SigIdle
    /\ RsiIdle

(***************************************************************************)
(* src/src/main.py: main().                                                *)
(***************************************************************************)
\* an exception nobody catches ends the run (pro has no try around main)
Crash(kind) ==
    /\ pc' = "crashed"
    /\ err' = kind

\* line 231: get_sheet() reads the secrets, builds the client and opens the
\* spreadsheet; any of these may raise
GetSheet ==
    /\ prog = "pro" /\ pc = "get_sheet"
    /\ attempts' = 1
    /\ \/ pc' = "fetch" /\ UNCHANGED err
       \/ \E kind \in {"transient", "fatal"} : Crash(kind)
    /\ UNCHANGED <<prog, tickers, idx, rows, failed, lastFetch, got, rejected,
                   tables, wd, wstep, sheets, prior, all_results, tries>>
    /\ UNCHANGED <<sigVars, rsiVars>>

\* yfinance alone: a symbol without yfinance data is given up, TWSE is not
\* asked
fetch_yf_only(t) ==
    { [yf |-> "ok", twse |-> "unused", last |-> <<r>>] : r \in LatestRows(t) }
    \cup
    { [yf |-> y, twse |-> "unused", last |-> <<>>] : y \in {"empty", "raise"} }

\* fetch_history_with_fallback, lines 190-195: yfinance first (an exception
\* or an empty frame is "no data"), TWSE only after that.  The answers the
\* sources can give for ticker t, with the latest row of the history.
fetch_history_with_fallback(t) ==
    { [yf |-> "ok", twse |-> "unused", last |-> <<r>>] : r \in LatestRows(t) }
    \cup
    { [yf |-> y, twse |-> "ok", last |-> <<r>>] :
        y \in {"empty", "raise"}, r \in LatestRows(t) }
    \cup
    { [yf |-> y, twse |-> "none", last |-> <<>>] : y \in {"empty", "raise"} }

\* lines 247-260, a symbol with data: its latest row is appended
FetchAppend ==
    /\ prog = "pro" /\ pc = "fetch" /\ idx <= Len(tickers)
    /\ \E res \in fetch_history_with_fallback(tickers[idx]) :
         /\ res.last # <<>>
         /\ rows' = rows \o res.last
         /\ got' = got \cup {tickers[idx]}
         /\ lastFetch' = [t |-> tickers[idx], yf |-> res.yf,
                          twse |-> res.twse, bars |-> 0]
    /\ idx' = idx + 1
    /\ UNCHANGED <<prog, pc, tickers, failed, rejected, tables, wd, wstep,
                   sheets, prior, err, attempts, all_results, tries>>
    /\ UNCHANGED <<sigVars, rsiVars>>

\* a symbol without data ends the run instead of being skipped
FetchSkipAborts ==
    /\ prog = "pro" /\ pc = "fetch" /\ idx <= Len(tickers)
    /\ \E res \in fetch_history_with_fallback(tickers[idx]) :
         /\ res.last = <<>>
         /\ lastFetch' = [t |-> tickers[idx], yf |-> res.yf,
                          twse |-> res.twse, bars |-> 0]
    /\ Crash("no_data")
    /\ UNCHANGED <<prog, tickers, idx, rows, failed, got, rejected, tables, wd,
                   wstep, sheets, prior, attempts, all_results, tries>>
    /\ UNCHANGED <<sigVars, rsiVars>>

\* lines 249-252, a symbol without data: logged, recorded and skipped
FetchSkip ==
    /\ prog = "pro" /\ pc = "fetch" /\ idx <= Len(tickers)
    /\ \E res \in fetch_history_with_fallback(tickers[idx]) :
         /\ res.last = <<>>
         /\ failed' = Append(failed, tickers[idx])
         /\ lastFetch' = [t |-> tickers[idx], yf |-> res.yf,
                          twse |-> res.twse, bars |-> 0]
    /\ idx' = idx + 1
    /\ UNCHANGED <<prog, pc, tickers, rows, got, rejected, tables, wd, wstep,
                   sheets, prior, err, attempts, all_results, tries>>
    /\ UNCHANGED <<sigVars, rsiVars>>

\* lines 262-263: no symbol gave data
NoRows ==
    /\ prog = "pro" /\ pc = "fetch" /\ idx > Len(tickers)
    /\ rows = <<>>
    /\ Crash("no_rows")
    /\ lastFetch' = NoFetch
    /\ UNCHANGED <<prog, tickers, idx, rows, failed, got, rejected, tables,
                   wd, wstep, sheets, prior, attempts, all_results, tries>>
    /\ UNCHANGED <<sigVars, rsiVars>>

\* lines 265-344: the tables of the run
Derive ==
    /\ prog = "pro" /\ pc = "fetch" /\ idx > Len(tickers)
    /\ rows # <<>>
    /\ LET df_fin == Select(rows, TRUE)
           df_nonfin == Select(rows, FALSE)
       IN  \E hot20 \in hot20_of(df_nonfin) :
             tables' = [ df_fin_all |-> df_fin,
                         df_nonfin_all |-> df_nonfin,
                         top10 |-> top10_of(df_nonfin),
                         hot20 |-> hot20,
                         top5 |-> top5_of(hot20),
                         top5_out |-> top5_out_of(top5_of(hot20)) ]
    /\ pc' = "write"
    /\ wd' = 1
    /\ wstep' = "get_or_create"
    /\ lastFetch' = NoFetch
    /\ UNCHANGED <<prog, tickers, idx, rows, failed, got, rejected, sheets,
                   prior, err, attempts, all_results, tries>>
    /\ UNCHANGED <<sigVars, rsiVars>>

\* a write-stage step leaves these alone
WriteFrame ==
    /\ UNCHANGED <<prog, tickers, idx, rows, failed, lastFetch, got, rejected,
                   tables, prior, all_results, tries>>
    /\ UNCHANGED <<sigVars, rsiVars>>

SetGrid(title, grid) ==
    sheets' = [sheets EXCEPT ![title] = [exists |-> TRUE, grid |-> grid]]

\* get_or_create, lines 69-73: the worksheet of that title, added when missing
GetOrCreate ==
    /\ prog = "pro" /\ pc = "write" /\ wstep = "get_or_create"
    /\ IF sheets[Titles[wd]].exists THEN UNCHANGED sheets
       ELSE SetGrid(Titles[wd], <<>>)
    /\ wstep' = "clear"
    /\ attempts' = 1
    /\ UNCHANGED <<pc, wd, err>>
    /\ WriteFrame

\* upsert_df, line 91, and update_roadmap, line 225: ws.clear()
WsClear ==
    /\ prog = "pro" /\ pc = "write" /\ wstep = "clear"
    /\ SetGrid(Titles[wd], ws_clear(sheets[Titles[wd]].grid))
    /\ wstep' = IF wd = RoadmapAt THEN "body" ELSE "stamp"
    /\ attempts' = 1
    /\ UNCHANGED <<pc, wd, err>>
    /\ WriteFrame

\* upsert_df, line 92: the marker in A1
UpdateStamp ==
    /\ prog = "pro" /\ pc = "write" /\ wstep = "stamp"
    /\ SetGrid(Titles[wd], PutRows(sheets[Titles[wd]].grid, 1, <<Stamp(NewStamp)>>))
    /\ wstep' = "body"
    /\ attempts' = 1
    /\ UNCHANGED <<pc, wd, err>>
    /\ WriteFrame

\* upsert_df, lines 93-97: "No Data" in A3, or the frame from row 2 on
WriteBody ==
    /\ prog = "pro" /\ pc = "write" /\ wstep = "body" /\ wd < RoadmapAt
    /\ SetGrid(Titles[wd], upsert_body(sheets[Titles[wd]].grid, DestTable(wd)))
    /\ wd' = wd + 1
    /\ wstep' = "get_or_create"
    /\ attempts' = 1
    /\ UNCHANGED <<pc, err>>
    /\ WriteFrame

\* update_roadmap, line 226, then main returns
UpdateRoadmap ==
    /\ prog = "pro" /\ pc = "write" /\ wstep = "body" /\ wd = RoadmapAt
    /\ SetGrid(Titles[wd], PutRows(sheets[Titles[wd]].grid, 1, roadmap_rows(NewStamp)))
    /\ pc' = "done"
    /\ wstep' = ""
    /\ attempts' = 1
    /\ UNCHANGED <<wd, err>>
    /\ WriteFrame

\* the sink call that comes next raises (rate limit, outage, bad request):
\* nothing around it catches or repeats it
SinkFault ==
    /\ prog = "pro" /\ pc = "write"
    /\ \E kind \in {"transient", "fatal"} : Crash(kind)
    /\ attempts' = 1
    /\ UNCHANGED <<wd, wstep, sheets>>
    /\ WriteFrame

NextCompute == FetchAppend \/ FetchSkip \/ NoRows \/ Derive
NextPro ==
    \/ GetSheet
    \/ NextCompute
    \/ GetOrCreate \/ WsClear \/ UpdateStamp \/ WriteBody \/ UpdateRoadmap
    \/ SinkFault

(***************************************************************************)
(* src/main.py: main().  Every exception raised inside main is caught by   *)
(* its own  except  clauses (lines 205-208), printed, and main returns.    *)
(***************************************************************************)
RetryMax == 3
MinBars == 60

\* the header row (line 149) and a result row (lines 174-191): the scan time
\* and the ticker; the score and indicator columns are not modelled
KingHeader == Header({"time", "ticker"})
KingRow(t) == Data([time |-> NewStamp, ticker |-> t])

\* Worksheet.append_row / append_rows: after the last row of the grid
append_rows(grid, cells) == grid \o cells

Caught(kind) ==
    /\ pc' = "caught"
    /\ err' = kind

KingFrame ==
    /\ UNCHANGED <<prog, tickers, rows, failed, tables, wd, prior>>
    /\ UNCHANGED <<sigVars, rsiVars>>

\* lines 141-143: the scan list is read; a missing file ends the run
KingReadList ==
    /\ prog = "king" /\ pc = "read_list"
    /\ \/ pc' = "client" /\ UNCHANGED err
       \/ Caught("no_list")
    /\ UNCHANGED <<idx, lastFetch, sheets, attempts, all_results, tries>>
    /\ UNCHANGED <<got, rejected>>
    /\ UNCHANGED wstep
    /\ KingFrame

\* lines 146-147: the client and the sheet id
KingClient ==
    /\ prog = "king" /\ pc = "client"
    /\ attempts' = 1
    /\ \/ pc' = "get_ws" /\ UNCHANGED err
       \/ \E kind \in {"transient", "fatal"} : Caught(kind)
    /\ UNCHANGED <<idx, lastFetch, sheets, all_results, tries>>
    /\ UNCHANGED <<got, rejected>>
    /\ UNCHANGED wstep
    /\ KingFrame

\* get_or_create_worksheet, lines 28-38: a missing worksheet is added and
\* given the header row; a failure after add_worksheet leaves it empty
KingGetWorksheet ==
    /\ prog = "king" /\ pc = "get_ws"
    /\ attempts' = 1
    /\ \/ /\ IF sheets[KingTitle].exists THEN UNCHANGED sheets
             ELSE SetGrid(KingTitle, <<KingHeader>>)
          /\ pc' = "clear" /\ UNCHANGED <<err, wstep>>
       \/ /\ \E kind \in {"transient", "fatal"} : Caught(kind)
          /\ wstep' = pc
          /\ \/ UNCHANGED sheets
             \/ ~sheets[KingTitle].exists /\ SetGrid(KingTitle, <<>>)
    /\ UNCHANGED <<idx, lastFetch, all_results, tries>>
    /\ UNCHANGED <<got, rejected>>
    /\ KingFrame

\* line 155: worksheet.clear()
KingClear ==
    /\ prog = "king" /\ pc = "clear"
    /\ attempts' = 1
    /\ SetGrid(KingTitle, ws_clear(sheets[KingTitle].grid))
    /\ pc' = "header"
    /\ UNCHANGED <<idx, lastFetch, err, all_results, tries>>
    /\ UNCHANGED <<got, rejected>>
    /\ UNCHANGED wstep
    /\ KingFrame

\* line 156: worksheet.append_row(headers)
KingAppendHeader ==
    /\ prog = "king" /\ pc = "header"
    /\ attempts' = 1
    /\ SetGrid(KingTitle, append_rows(sheets[KingTitle].grid, <<KingHeader>>))
    /\ pc' = "fetch"
    /\ UNCHANGED <<idx, lastFetch, err, all_results, tries>>
    /\ UNCHANGED <<got, rejected>>
    /\ UNCHANGED wstep
    /\ KingFrame

\* a sink call of lines 155, 156 or 199 raises: caught at line 207
KingSinkFault ==
    /\ prog = "king" /\ pc \in {"clear", "header", "append"}
    /\ pc = "append" => all_results # <<>>
    /\ attempts' = 1
    /\ \E kind \in {"transient", "fatal"} : Caught(kind)
    /\ UNCHANGED <<idx, lastFetch, sheets, all_results, tries>>
    /\ UNCHANGED <<got, rejected>>
    /\ wstep' = pc
    /\ KingFrame

KingNextTicker(outcome, bars) ==
    /\ idx' = idx + 1
    /\ tries' = 0
    /\ lastFetch' = [t |-> tickers[idx], yf |-> outcome, twse |-> "unused",
                     bars |-> bars]
    /\ pc' = IF idx = Len(tickers) THEN "append" ELSE "fetch"

\* fetch_stock_data_with_retry, lines 41-50, raises: @retry calls it again
\* until RetryMax calls were made, then the exception reaches line 195 and
\* the loop goes on with the next ticker
KingFetchRaise ==
    /\ prog = "king" /\ pc = "fetch"
    /\ IF tries + 1 < RetryMax
       THEN /\ tries' = tries + 1
            /\ UNCHANGED <<idx, lastFetch, pc>>
       ELSE KingNextTicker("raise", 0)
    /\ UNCHANGED <<sheets, err, attempts, all_results>>
    /\ UNCHANGED <<got, rejected>>
    /\ UNCHANGED wstep
    /\ KingFrame

\* lines 47-49 and 164-166: an empty history is None, and the ticker is
\* skipped (a returned None is not retried)
KingFetchNone ==
    /\ prog = "king" /\ pc = "fetch"
    /\ KingNextTicker("empty", 0)
    /\ UNCHANGED <<sheets, err, attempts, all_results>>
    /\ UNCHANGED <<got, rejected>>
    /\ UNCHANGED wstep
    /\ KingFrame

\* analyze_stock, lines 56-57 and 170-172: fewer than MinBars bars is an
\* error result, and the ticker is skipped
KingAnalyzeShort ==
    /\ prog = "king" /\ pc = "fetch"
    /\ \E bars \in {MinBars - 1} : KingNextTicker("hist", bars)
    /\ got' = got \cup {tickers[idx]}
    /\ rejected' = rejected \cup {tickers[idx]}
    /\ UNCHANGED <<sheets, err, attempts, all_results>>
    /\ UNCHANGED wstep
    /\ KingFrame

\* analyze_stock, lines 126-127, and line 195: an exception while the
\* history is analysed or its row is built is an error result or is caught
\* in the loop, and the ticker is skipped
KingAnalyzeRaise ==
    /\ prog = "king" /\ pc = "fetch"
    /\ \E bars \in {MinBars} : KingNextTicker("hist", bars)
    /\ got' = got \cup {tickers[idx]}
    /\ rejected' = rejected \cup {tickers[idx]}
    /\ UNCHANGED <<sheets, err, attempts, all_results>>
    /\ UNCHANGED wstep
    /\ KingFrame

\* lines 168-193: the analysed ticker gives one row
KingAnalyze ==
    /\ prog = "king" /\ pc = "fetch"
    /\ \E bars \in {MinBars} : KingNextTicker("hist", bars)
    /\ all_results' = Append(all_results, KingRow(tickers[idx]))
    /\ got' = got \cup {tickers[idx]}
    /\ UNCHANGED rejected
    /\ UNCHANGED <<sheets, err, attempts>>
    /\ UNCHANGED wstep
    /\ KingFrame

\* lines 198-201: the rows are appended, and the run reports success
KingAppendRows ==
    /\ prog = "king" /\ pc = "append" /\ all_results # <<>>
    /\ attempts' = 1
    /\ SetGrid(KingTitle, append_rows(sheets[KingTitle].grid, all_results))
    /\ pc' = "done"
    /\ UNCHANGED <<idx, lastFetch, err, all_results, tries>>
    /\ UNCHANGED <<got, rejected>>
    /\ UNCHANGED wstep
    /\ KingFrame

\* lines 202-203: nothing was analysed; a message is printed and main returns
KingNothing ==
    /\ prog = "king" /\ pc = "append" /\ all_results = <<>>
    /\ pc' = "done"
    /\ UNCHANGED <<idx, lastFetch, sheets, err, attempts, all_results, tries>>
    /\ UNCHANGED <<got, rejected>>
    /\ UNCHANGED wstep
    /\ KingFrame

NextKing ==
    \/ KingReadList \/ KingClient \/ KingGetWorksheet \/ KingClear
    \/ KingAppendHeader \/ KingSinkFault
    \/ KingFetchRaise \/ KingFetchNone
    \/ KingAnalyzeShort \/ KingAnalyzeRaise \/ KingAnalyze
    \/ KingAppendRows \/ KingNothing

Next == NextPro \/ NextKing
Spec == Init /\ [][Next]_vars

(***************************************************************************)
(* The ranking of src/src/main.py on its own: runs over longer lists, up   *)
(* to the tables of lines 265-344, without the write stage.                *)
(***************************************************************************)
Reverse(seq) == [p \in 1..Len(seq) |-> seq[Len(seq) + 1 - p]]

\* the first n config symbols in the order of the config, and reversed
RankLists ==
    UNION { {SubSeq(ConfigSymbols, 1, n), Reverse(SubSeq(ConfigSymbols, 1, n))} :
            n \in 1..RankTickers }

InitRank ==
    /\ \E list \in RankLists : InitRun("pro", list, "present")
    /\ SigIdle
    /\ RsiIdle

NextRank == GetSheet \/ NextCompute
SpecRank == InitRank /\ [][NextRank]_vars

(***************************************************************************)
(* signal_pro on its own: top5.apply(signal_pro, axis=1), line 315, for    *)
(* one row of Top5 drawn from a bounded set of rows.                       *)
(***************************************************************************)
\* a run at rest, for the specifications that apply one function
RunIdle == InitRun("pro", <<ConfigSymbols[1]>>, "absent")

\* (BB_Lower, BB_Upper) around a close of 20: inside the band, near its
\* lower and its upper edge, on and beyond the edges, a band of width zero,
\* and no band yet
Bands ==
    { <<Num(15), Num(35)>>, <<Num(19), Num(29)>>, <<Num(11), Num(21)>>,
      <<Num(20), Num(30)>>, <<Num(10), Num(20)>>, <<Num(22), Num(32)>>,
      <<Num(8), Num(18)>>, <<Num(20), Num(20)>>, <<NaN, NaN>> }
\* (SMA50, SMA200): rising, falling, neither, and no SMA200 yet
Trends ==
    { <<Num(15), Num(10)>>, <<Num(25), Num(30)>>, <<Num(15), Num(30)>>,
      <<Num(15), NaN>> }
\* (Volume, Vol20)
Volumes == { <<Num(1), Num(2)>>, <<Num(3), Num(2)>>, <<Num(3), NaN>> }
SignalRSIs == {NaN, Num(25), Num(35), Num(38), Num(50), Num(62), Num(65), Num(75)}

SignalRows ==
    { Row(ConfigSymbols[1], Num(20), vol[1], vol[2], rsi, tr[1], tr[2],
          bb[1], bb[2]) :
      vol \in Volumes, rsi \in SignalRSIs, tr \in Trends, bb \in Bands }

InitSignal ==
    /\ RunIdle
    /\ sigRow \in SignalRows
    /\ sigLabel = ""
    /\ RsiIdle

ApplySignal ==
    /\ sigLabel = ""
    /\ sigLabel' = signal_pro(sigRow)
    /\ UNCHANGED <<sigRow, runVars, rsiVars>>

SpecSignal == InitSignal /\ [][ApplySignal]_vars

(***************************************************************************)
(* The RSI14 column on its own: add_indicators applied to one history, a   *)
(* column of closes drawn from the series of up to MaxBars bars.           *)
(***************************************************************************)
CloseValues == {1, 2}
CloseSeries ==
    UNION { [1..n -> CloseValues] : n \in (MaxBars - 2)..MaxBars }

InitRsi ==
    /\ RunIdle
    /\ SigIdle
    /\ closes \in CloseSeries
    /\ rsiCol = <<>>

ApplyIndicators ==
    /\ rsiCol = <<>>
    /\ rsiCol' = RSI14_of(closes)
    /\ UNCHANGED <<closes, runVars, sigVars>>

SpecRsi == InitRsi /\ [][ApplyIndicators]_vars

(***************************************************************************)
(* Properties of a run.                                                    *)
(***************************************************************************)
RunEnded == pc \in {"done", "crashed", "caught"}
GridOf(title) == sheets[title].grid
Unchanged(title) == GridOf(title) = PriorSheet(prior).grid

\* the columns of the frames main writes
BaseCols ==
    {"sym", "Close", "Volume", "Vol20", "RSI14", "SMA50", "SMA200",
     "BB_Lower", "BB_Upper"}
Top5Cols ==
    {"sym", "Close", "RSI14", "BB_percent", "Bull", "Bear", "VolOK", "Signal"}
ColsOf(d) == IF d = 5 THEN Top5Cols ELSE BaseCols

\* a cell as the worksheet shows it: a number, or empty
ShownCell(x) == IF x.k = "num" THEN x ELSE None
ShownRow(r) ==
    [c \in DOMAIN r |-> IF c \in FloatCols THEN ShownCell(r[c]) ELSE r[c]]

\* the marker, then the header and the rows of R
MarkerPlus(R, cols) ==
    <<Stamp(NewStamp), Header(cols)>> \o
    [p \in 1..Len(R) |-> Data(ShownRow(R[p]))]

\* destination d of pro went through a whole upsert_df in this run
Written(d) ==
    /\ prog = "pro"
    /\ pc \in {"write", "done", "crashed"}
    /\ d < wd

\* every destination holds what a complete run leaves in it
AllRefreshed ==
    IF prog = "pro"
    THEN /\ \A d \in 1..(RoadmapAt - 1) :
              GridOf(Titles[d]) = upsert_df(<<>>, DestTable(d), NewStamp)
         /\ GridOf(Titles[RoadmapAt]) = roadmap_rows(NewStamp)
    ELSE /\ all_results # <<>>
         /\ GridOf(KingTitle) = <<KingHeader>> \o all_results

AllUnchanged == \A title \in SheetsOf(prog) : Unchanged(title)

\* C1 (as claimed): a run that has ended left every destination refreshed,
\* or every destination as it was before the run; no destination is cleared
\* but not rewritten, and none is refreshed while another is not.
C1_AllOrNothing ==
    (prog = "pro" /\ RunEnded) => (AllRefreshed \/ AllUnchanged)

\* C2 (as claimed): after a successful upsert_df with row-set R the
\* destination shows exactly the marker plus R's header and rows, also when
\* R is empty.
C2_MarkerPlusR ==
    \A d \in 1..(RoadmapAt - 1) :
        Written(d) => GridOf(Titles[d]) = MarkerPlus(DestTable(d), ColsOf(d))

\* C2 (amended): after a successful upsert_df with row-set R no row of the
\* previous content remains; the destination shows the marker in A1 and,
\* when R is not empty, R's header and rows from row 2 on, and when R is
\* empty the single cell "No Data" in A3 and no header.  A king run that
\* completed left the header row followed by its result rows and nothing else.
C2_FullReplace ==
    /\ \A d \in 1..(RoadmapAt - 1) :
          Written(d) =>
             GridOf(Titles[d]) =
                IF DestTable(d) = <<>>
                THEN <<Stamp(NewStamp), Blank, Text("No Data")>>
                ELSE MarkerPlus(DestTable(d), ColsOf(d))
    /\ (prog = "king" /\ pc = "done") =>
          GridOf(KingTitle) =
             <<KingHeader>> \o
             [p \in 1..Len(all_results) |-> KingRow(all_results[p].row.ticker)]

\* C2 witness: worksheets a previous run left with more rows than this run
\* has, replaced once by an empty frame and once by a frame with rows
C2_Witness ==
    /\ prog = "pro" /\ prior = "present" /\ wd > 2
    /\ tables.df_fin_all = <<>>
    /\ tables.df_nonfin_all # <<>>
    /\ Len(tables.df_nonfin_all) < OldRows

TableSymbols ==
    IF prog = "pro" THEN SymbolsOf(rows)
    ELSE {all_results[p].row.ticker : p \in 1..Len(all_results)}
Processed == {tickers[p] : p \in 1..(idx - 1)}
LoopOver == idx > Len(tickers) /\ pc # "fetch"
WriteReached ==
    IF prog = "pro" THEN err # "no_rows" ELSE all_results # <<>>
\* once the loop has begun, the run ends only after the whole list
NoAbortInLoop == (RunEnded /\ idx > 1) => idx > Len(tickers)

\* C3 (as claimed): the accumulated table has rows for exactly the symbols
\* whose fetch succeeded, a fetch failure does not abort the run, and with
\* at least one successful fetch the run reaches the write stage.
C3_ExactlyFetched ==
    /\ TableSymbols = got
    /\ NoAbortInLoop
    /\ (LoopOver /\ got # {}) => WriteReached

\* C3 (amended): the accumulated table has rows for exactly the symbols
\* whose fetch succeeded and, in the king script, whose history was
\* analysed without an error (fewer than MinBars bars is one); a symbol
\* without data has no row and does not abort the run; the run reaches the
\* write of the rows whenever the table is not empty.
C3_PartialFailure ==
    /\ TableSymbols = got \ rejected
    /\ rejected \subseteq got
    /\ prog = "pro" => (rejected = {} /\ Range(failed) = Processed \ got)
    /\ NoAbortInLoop
    /\ (LoopOver /\ got \ rejected # {}) => WriteReached

\* C3 witness: a run in its write stage with a skipped symbol and a row
C3_Witness ==
    /\ prog = "pro" /\ pc = "write"
    /\ failed # <<>>
    /\ rows # <<>>

\* C4 (as claimed): when no symbol gave usable data the run ends in a fatal
\* failure, not a normal completion, and no destination was modified.
C4_NoDataIsFatal ==
    (RunEnded /\ idx > Len(tickers) /\ got \ rejected = {})
        => (pc # "done" /\ AllUnchanged)

\* the calls that change a worksheet (pro lines 92-97, king lines 155, 156
\* and 199)
SinkWrites == {"clear", "stamp", "body", "header", "append"}

\* C5 (as claimed): a run gives up on a sink write that fails transiently
\* only after RetryMax attempts, and on a sink or configuration call that
\* fails non-transiently after one attempt, the failure ending the run.
C5_BoundedRetry ==
    /\ (RunEnded /\ wstep \in SinkWrites /\ err = "transient")
           => attempts = RetryMax
    /\ err = "fatal" => (attempts = 1 /\ pc \in {"crashed", "caught"})

(***************************************************************************)
(* Watchlists: claims C6, C7, C8 (SpecRank).                               *)
(***************************************************************************)
Derived == prog = "pro" /\ pc = "write"
NonFinRows == Select(rows, FALSE)
NoBuy == \A p \in 1..Len(rows) : signal_pro(rows[p]) # "Buy"

\* C6 (as claimed): when no latest row of the universe table is a Buy, each
\* watchlist of size N has exactly min(N, number of distinct symbols of the
\* universe table) rows.
C6_FallbackSize ==
    (Derived /\ NoBuy) =>
        /\ Len(tables.top10) = Min(Top10N, Cardinality(SymbolsOf(rows)))
        /\ Len(tables.top5) = Min(Top5N, Cardinality(SymbolsOf(rows)))

\* C6 (amended): whatever the signals, Top10 has min(10, n) rows and Top5
\* has min(5, n) rows, n being the number of non-financial rows of the
\* universe table; the financial rows are never candidates.
C6_NonFinSize ==
    Derived =>
        /\ Len(tables.top10) = Min(Top10N, Len(NonFinRows))
        /\ Len(tables.top5) = Min(Top5N, Min(Hot20N, Len(NonFinRows)))
        /\ \A p \in 1..Len(tables.top10) : ~is_fin(tables.top10[p].sym)
        /\ \A p \in 1..Len(tables.top5) : ~is_fin(tables.top5[p].sym)

\* C6 witness: a universe table without a Buy, with a financial row and
\* more non-financial rows than Top5 takes
C6_Witness ==
    /\ Derived /\ NoBuy
    /\ Select(rows, TRUE) # <<>>
    /\ Len(NonFinRows) > Top5N
    /\ Len(tables.top5) = Top5N
    /\ Len(tables.top10) = Len(NonFinRows)

\* the watchlists with the rows each is cut from
Watchlists ==
    { [list |-> tables.top10, from |-> NonFinRows],
      [list |-> tables.top5, from |-> tables.hot20] }
LeftOut(w) == Range(w.from) \ Range(w.list)

\* C7 (as claimed): every watchlist is ordered ascending by rsi, rows of
\* equal rsi descending by volume, and no candidate left out has a strictly
\* lower rsi than a selected row.
C7_AscendingRsi ==
    Derived =>
      \A w \in Watchlists :
        /\ \A i, j \in 1..Len(w.list) :
              (i < j /\ IsNum(w.list[i].RSI14) /\ IsNum(w.list[j].RSI14)) =>
                 /\ Le(w.list[i].RSI14, w.list[j].RSI14)
                 /\ Eq(w.list[i].RSI14, w.list[j].RSI14)
                       => Ge(w.list[i].Volume, w.list[j].Volume)
        /\ \A c \in LeftOut(w), r \in Range(w.list) : ~Lt(c.RSI14, r.RSI14)

\* C7 (amended): Top10 and Top5 are ordered descending by RSI14, rows
\* without an RSI last, rows of equal RSI (or both without) descending by
\* Volume; Top10 is cut from the non-financial rows and Top5 from Hot20, and
\* no candidate left out has a strictly higher RSI than a selected row.
C7_DescendingRsi ==
    Derived =>
      \A w \in Watchlists :
        /\ \A i, j \in 1..Len(w.list) :
              i < j =>
                 /\ IsNum(w.list[j].RSI14) =>
                       /\ IsNum(w.list[i].RSI14)
                       /\ Ge(w.list[i].RSI14, w.list[j].RSI14)
                 /\ (\/ Eq(w.list[i].RSI14, w.list[j].RSI14)
                     \/ ~IsNum(w.list[i].RSI14))
                       => Ge(w.list[i].Volume, w.list[j].Volume)
        /\ \A c \in LeftOut(w), r \in Range(w.list) :
              /\ ~Gt(c.RSI14, r.RSI14)
              /\ IsNum(c.RSI14) => IsNum(r.RSI14)
        /\ Range(w.list) \subseteq Range(w.from)

\* C7 witness: a Top5 that leaves a candidate out and holds rows of
\* different RSI, rows of equal RSI and different volume, and a row
\* without RSI
C7_Witness ==
    /\ Derived
    /\ LeftOut([list |-> tables.top5, from |-> tables.hot20]) # {}
    /\ \E i, j \in 1..Len(tables.top5) :
          Gt(tables.top5[i].RSI14, tables.top5[j].RSI14)
    /\ \E i, j \in 1..Len(tables.top5) :
          /\ Eq(tables.top5[i].RSI14, tables.top5[j].RSI14)
          /\ Gt(tables.top5[i].Volume, tables.top5[j].Volume)
    /\ \E i \in 1..Len(tables.top5) : ~IsNum(tables.top5[i].RSI14)

\* the universe table the loop of lines 246-260 accumulates when it goes
\* through the symbols in the order of list and every symbol answers as it
\* did in this run
RECURSIVE RowsInOrder(_, _)
RowsInOrder(list, df) ==
    IF list = <<>> THEN <<>>
    ELSE SelectSeq(df, LAMBDA r : r.sym = Head(list))
         \o RowsInOrder(Tail(list), df)

\* C8 (as claimed): a run over any permutation of the symbol list, with the
\* same answers per symbol, gives the same universe table as a set of rows
\* and the same watchlists, rows and order, also with ties on rsi and volume.
C8_PermutationIndependent ==
    Derived =>
      \A list \in RankLists :
        Range(list) = Range(tickers) =>
          LET other == RowsInOrder(list, rows)
          IN  /\ Range(other) = Range(rows)
              /\ tables.top10 = top10_of(Select(other, FALSE))
              /\ tables.top5 \in
                    { top5_of(h) : h \in hot20_of(Select(other, FALSE)) }

(***************************************************************************)
(* The signal label: claim C9 (SpecSignal).                                *)
(***************************************************************************)
Labelled == sigLabel # ""
entry_zone(r) == Le(r.Close, r.BB_Lower)
exit_zone(r) == Ge(r.Close, r.BB_Upper)
Times(a, n) == IF IsNum(a) THEN Frac(a.v * n, a.d) ELSE a

\* C9 (as claimed): the label is Buy if rsi < 30 or close <= bb_lower,
\* otherwise Sell if rsi > 70 or close >= bb_upper, otherwise Hold, and Hold
\* when close is on both bands at once; no other field changes it.
C9_ShortSignal ==
    Labelled =>
       sigLabel =
          IF entry_zone(sigRow) /\ exit_zone(sigRow) THEN "Hold"
          ELSE IF Lt(sigRow.RSI14, Num(30)) \/ entry_zone(sigRow) THEN "Buy"
          ELSE IF Gt(sigRow.RSI14, Num(70)) \/ exit_zone(sigRow) THEN "Sell"
          ELSE "Hold"

\* C9 (amended): with width = BB_Upper - BB_Lower, the label is Buy when
\* Volume >= Vol20 and Close > SMA50 > SMA200 and (RSI14 <= 38 or width
\* is not 0 and Close - BB_Lower <= 0.12 width); otherwise Sell when
\* Volume >= Vol20 and Close < SMA50 < SMA200 and (RSI14 >= 62 or width is
\* not 0 and Close - BB_Lower >= 0.88 width); otherwise Hold.  A
\* comparison with a missing value is false.
C9_SignalPro ==
    Labelled =>
       LET r == sigRow
           width == Sub(r.BB_Upper, r.BB_Lower)
           above == Sub(r.Close, r.BB_Lower)
           low == Gt(width, Num(0)) /\ Le(Times(above, 100), Times(width, 12))
           high == Gt(width, Num(0)) /\ Ge(Times(above, 100), Times(width, 88))
           buy == /\ Ge(r.Volume, r.Vol20)
                  /\ Gt(r.Close, r.SMA50) /\ Gt(r.SMA50, r.SMA200)
                  /\ (Le(r.RSI14, Num(38)) \/ low)
           sell == /\ Ge(r.Volume, r.Vol20)
                   /\ Lt(r.Close, r.SMA50) /\ Lt(r.SMA50, r.SMA200)
                   /\ (Ge(r.RSI14, Num(62)) \/ high)
       IN  /\ sigLabel = "Buy" <=> buy
           /\ sigLabel = "Sell" <=> (~buy /\ sell)
           /\ sigLabel = "Hold" <=> (~buy /\ ~sell)

\* C9 witness: a Buy at an RSI between 30 and 38 with the close inside the
\* band
C9_Witness ==
    /\ sigLabel = "Buy"
    /\ Gt(sigRow.RSI14, Num(30))
    /\ Gt(sigRow.Close, sigRow.BB_Lower) /\ Lt(sigRow.Close, sigRow.BB_Upper)

(***************************************************************************)
(* The RSI: claim C10 (SpecRsi).                                           *)
(***************************************************************************)
\* C10 (as claimed): at every position where the 14-bar averages exist and
\* the average loss is 0 the rsi is 100, not undefined and not infinite, and
\* an rsi that is defined lies in [0, 100].
C10_RsiNoLoss ==
    rsiCol # <<>> =>
      \A i \in 1..Len(closes) :
        /\ Eq(loss_of(closes)[i], Num(0)) => Eq(rsiCol[i], Num(100))
        /\ IsNum(rsiCol[i]) =>
              (Ge(rsiCol[i], Num(0)) /\ Le(rsiCol[i], Num(100)))

(***************************************************************************)
(* The two sources: claim C11 (Spec).                                      *)
(***************************************************************************)
\* the symbol the loop of the pro script has just been through
JustFetched == prog = "pro" /\ lastFetch.t # 0
RowsFor(t) == { p \in 1..Len(rows) : rows[p].sym = t }

\* C11: TWSE is asked only after yfinance gave no data or raised, never
\* after yfinance gave a history; a symbol is recorded as failed and skipped
\* exactly when neither source gave data, and every other symbol the loop
\* went through has exactly one row in the universe table, its latest bar.
C11_FallbackOrder ==
    /\ JustFetched =>
          /\ lastFetch.t = tickers[idx - 1]
          /\ lastFetch.yf = "ok" <=> lastFetch.twse = "unused"
          /\ lastFetch.twse \in {"ok", "none"}
                => lastFetch.yf \in {"empty", "raise"}
          /\ lastFetch.t \in Range(failed) <=>
                (lastFetch.yf \in {"empty", "raise"} /\ lastFetch.twse = "none")
          /\ lastFetch.t \notin Range(failed) =>
                /\ rows # <<>>
                /\ rows[Len(rows)] \in LatestRows(lastFetch.t)
    /\ prog = "pro" =>
          \A t \in Processed :
             Cardinality(RowsFor(t)) = IF t \in Range(failed) THEN 0 ELSE 1

\* C11 witness: a symbol both sources had no data for was skipped, and the
\* next one got its row from TWSE after yfinance raised
C11_Witness ==
    /\ JustFetched
    /\ failed # <<>>
    /\ lastFetch.yf = "raise" /\ lastFetch.twse = "ok"
    /\ rows # <<>> /\ rows[Len(rows)].sym = lastFetch.t

====
